---------------------------- MODULE Spec2Model ----------------------------
(***************************************************************************)
(* Model of the Aadhaar 360 Sentinel batch pipeline and audit API.         *)
(*                                                                         *)
(*   src/src/etl_pipeline/ingest_data.py  normalize_location_names,        *)
(*                                        load_chunked_data, main          *)
(*   src/src/api/app.py                   load_data, analyze_logic,        *)
(*                                        get_audit_report                 *)
(*                                                                         *)
(* A text is a sequence of characters; a character is a one-element string *)
(* or the name of a code point ("U+01F0").  A DataFrame is a sequence of   *)
(* rows.  Ratios are kept in thousandths (milli), as round(3) leaves them. *)
(***************************************************************************)
EXTENDS Integers, Sequences, FiniteSets, TLC

VARIABLES
    loc_in,         \* a raw location text handed to the normalizer
    loc_out,        \* normalize(loc_in), once computed
    loc_again,      \* normalize(loc_out), once computed
    loc_stage,      \* how many times the normalizer has been applied (0..2)
    pc,             \* position of the batch process (ingest_data.py main)
    df_enrol,       \* main's local df_enrol as loaded (raw)
    df_bio,         \* main's local df_bio as loaded (raw)
    df_demo,        \* main's local df_demo as loaded (raw)
    outcome,        \* how main ended: "none", "KeyError", "stopped", "saved"
    final_df,       \* main's local final_df (the Metric Merger's output)
    pending,        \* serialized records to_json has not yet written
    snapshot,       \* contents of processed_metrics.json
    forecast_model, \* app.py's module-level forecast_model
    request,        \* the last audit request served
    response,       \* the response to it
    observed        \* what the last load_data call returned

vars == <<loc_in, loc_out, loc_again, loc_stage, pc, df_enrol, df_bio, df_demo,
          outcome, final_df, pending, snapshot, forecast_model, request,
          response, observed>>

-----------------------------------------------------------------------------
(* Bounds *)

\* longest raw text handed to the normalizer on its own
MaxLen == 3
\* most rows the three raw folders hold together in one batch run
MaxRows == 4
\* most rows the raw folders hold together in a run the API serves beside
ServedRows == 3
\* largest district volume in a snapshot that carries the columns the API reads
MaxLegacyVolume == 2

-----------------------------------------------------------------------------
(* Characters and Python's str methods *)

\* an absent request argument (request.args.get returns None)
None == <<"None">>

UpperOf == [a |-> "A", b |-> "B", d |-> "D", e |-> "E", j |-> "J", l |-> "L",
            n |-> "N", o |-> "O", t |-> "T", x |-> "X"]
LowerOf == [A |-> "a", B |-> "b", D |-> "d", E |-> "e", J |-> "j", L |-> "l",
            N |-> "n", O |-> "o", T |-> "t", X |-> "x"]

\* U+01F0 is LATIN SMALL LETTER J WITH CARON, a lowercase letter with no
\* single-code-point capital; U+030C is COMBINING CARON.
JCaron == "U+01F0"
Caron == "U+030C"

IsLower(c) == c \in DOMAIN UpperOf \/ c = JCaron
IsUpper(c) == c \in DOMAIN LowerOf
\* unicodedata: the Cased property (letters with a case; marks have none)
IsCased(c) == IsLower(c) \/ IsUpper(c)
IsSpace(c) == c = " "

\* str.lower on one character
ToLower(c) == IF IsUpper(c) THEN <<LowerOf[c]>> ELSE <<c>>
\* the full titlecase mapping of one character
ToTitleFull(c) ==
    IF c = JCaron THEN <<"J", Caron>>
    ELSE IF c \in DOMAIN UpperOf THEN <<UpperOf[c]>>
    ELSE <<c>>

RECURSIVE lstrip(_)
lstrip(s) == IF s # <<>> /\ IsSpace(Head(s)) THEN lstrip(Tail(s)) ELSE s

RECURSIVE rstrip(_)
rstrip(s) ==
    IF s # <<>> /\ IsSpace(s[Len(s)]) THEN rstrip(SubSeq(s, 1, Len(s) - 1))
    ELSE s

\* str.strip()
strip(s) == rstrip(lstrip(s))

RECURSIVE replace_amp(_)
\* str.replace("&", "And", regex=False)
replace_amp(s) ==
    IF s = <<>> THEN <<>>
    ELSE (IF Head(s) = "&" THEN <<"A", "n", "d">> ELSE <<Head(s)>>)
         \o replace_amp(Tail(s))

RECURSIVE title_from(_, _)
\* str.title(): a character after a cased one is lowercased, any other is
\* titlecased; previous_is_cased is taken from the source character.
title_from(s, previous_is_cased) ==
    IF s = <<>> THEN <<>>
    ELSE (IF previous_is_cased THEN ToLower(Head(s)) ELSE ToTitleFull(Head(s)))
         \o title_from(Tail(s), IsCased(Head(s)))

title(s) == title_from(s, FALSE)

RECURSIVE lower(_)
\* str.lower()
lower(s) == IF s = <<>> THEN <<>> ELSE ToLower(Head(s)) \o lower(Tail(s))

\* a plausible slip: the conjunction is replaced after the casing is applied
normalize_replace_last(s) == replace_amp(title(strip(s)))

\* one column of normalize_location_names: strip, replace '&', title
normalize(s) == title(replace_amp(strip(s)))

-----------------------------------------------------------------------------
(* The normalizer on its own *)

NormChars == {"a", "A", " ", "&", JCaron}

AsciiChars == NormChars \ {JCaron}

RECURSIVE Texts(_, _)
\* all texts over alphabet cs of length at most n
Texts(cs, n) ==
    IF n = 0 THEN {<<>>}
    ELSE LET shorter == Texts(cs, n - 1)
         IN  shorter \cup {<<c>> \o t : c \in cs, t \in {u \in shorter : Len(u) = n - 1}}


-----------------------------------------------------------------------------
(* Ordering of texts, as Python compares str (by code point) *)

CodePoint(c) ==
    CASE c = " " -> 32
      [] c = "&" -> 38
      [] c = "A" -> 65  [] c = "B" -> 66  [] c = "D" -> 68  [] c = "E" -> 69
      [] c = "J" -> 74  [] c = "L" -> 76  [] c = "N" -> 78  [] c = "O" -> 79
      [] c = "T" -> 84  [] c = "X" -> 88
      [] c = "a" -> 97  [] c = "b" -> 98  [] c = "d" -> 100 [] c = "e" -> 101
      [] c = "j" -> 106 [] c = "l" -> 108 [] c = "n" -> 110 [] c = "o" -> 111
      [] c = "t" -> 116 [] c = "x" -> 120
      [] c = JCaron -> 496
      [] c = Caron -> 780

RECURSIVE TextLess(_, _)
TextLess(s, t) ==
    IF t = <<>> THEN FALSE
    ELSE IF s = <<>> THEN TRUE
    ELSE IF Head(s) = Head(t) THEN TextLess(Tail(s), Tail(t))
    ELSE CodePoint(Head(s)) < CodePoint(Head(t))

\* order of (state, district) group keys
KeyLess(k, m) == TextLess(k[1], m[1]) \/ (k[1] = m[1] /\ TextLess(k[2], m[2]))

RECURSIVE SortKeys(_)
\* the keys of a set in ascending order (groupby sorts its group keys)
SortKeys(ks) ==
    IF ks = {} THEN <<>>
    ELSE LET least == CHOOSE k \in ks : \A m \in ks \ {k} : KeyLess(k, m)
         IN  <<least>> \o SortKeys(ks \ {least})

-----------------------------------------------------------------------------
(* DataFrames *)

\* pd.DataFrame(): no columns, no rows
EmptyFrame == [columns |-> FALSE, rows |-> <<>>]

Frame(rows) == [columns |-> TRUE, rows |-> rows]

\* DataFrame.empty
IsEmpty(df) == df.rows = <<>>

RECURSIVE concat(_)
\* pd.concat over the files read, ignore_index=True
concat(files) == IF files = <<>> THEN <<>> ELSE Head(files) \o concat(Tail(files))

\* load_chunked_data: files is what glob found, each file its rows
load_chunked_data(files) ==
    IF files = <<>> THEN EmptyFrame ELSE Frame(concat(files))

\* df["state"] on a frame without that column raises KeyError
normalize_raises(df) == ~df.columns

\* normalize_location_names on a frame that has the columns
normalize_location_names(df) ==
    Frame([i \in 1..Len(df.rows) |->
             [df.rows[i] EXCEPT !.state = normalize(@), !.district = normalize(@)]])

RECURSIVE SumOver(_, _)
\* the sum of metric[i] over the row indices in idx
SumOver(metric, idx) ==
    IF idx = {} THEN 0
    ELSE LET i == CHOOSE j \in idx : TRUE
         IN  metric[i] + SumOver(metric, idx \ {i})

\* groupby(["state", "district"], as_index=False).agg(sum) of a derived metric:
\* one row <<key, sum>> per key, keys ascending
GroupSum(rows, metric) ==
    LET keys   == {<<rows[i].state, rows[i].district>> : i \in 1..Len(rows)}
        sorted == SortKeys(keys)
    IN  [n \in 1..Len(sorted) |->
           [key |-> sorted[n],
            sum |-> SumOver(metric, {i \in 1..Len(rows) :
                        <<rows[i].state, rows[i].district>> = sorted[n]})]]

\* lines 71-81
enrol_agg(df) ==
    GroupSum(df.rows, [i \in 1..Len(df.rows) |->
        df.rows[i].age_0_5 + df.rows[i].age_5_17 + df.rows[i].age_18_greater])

\* lines 86-95
bio_agg(df) ==
    GroupSum(df.rows, [i \in 1..Len(df.rows) |->
        df.rows[i].bio_age_5_17 + df.rows[i].bio_age_17_])

\* lines 100-109
demo_agg(df) ==
    GroupSum(df.rows, [i \in 1..Len(df.rows) |->
        df.rows[i].demo_age_5_17 + df.rows[i].demo_age_17_])

-----------------------------------------------------------------------------
(* Numeric cells *)

Num(v) == [kind |-> "num", val |-> v]
NaN == [kind |-> "nan", val |-> 0]
Inf == [kind |-> "inf", val |-> 0]
\* JSON null
Null == [kind |-> "null", val |-> 0]

\* the cell of the right frame for a key, NaN where the key is missing
Lookup(agg, key) ==
    LET hit == {n \in 1..Len(agg) : agg[n].key = key}
    IN  IF hit = {} THEN NaN ELSE Num(agg[CHOOSE n \in hit : TRUE].sum)

\* a plausible slip: how="inner" drops the keys the right frame lacks
merge_inner(left, right) ==
    LET kept == {n \in 1..Len(left) : Lookup(right, left[n][1]) # NaN}
        RECURSIVE Pick(_)
        Pick(n) == IF n > Len(left) THEN <<>>
                   ELSE (IF n \in kept
                         THEN <<Append(left[n], Lookup(right, left[n][1]))>>
                         ELSE <<>>) \o Pick(n + 1)
    IN  Pick(1)

\* DataFrame.merge(right, on=["state", "district"], how="left"): every left
\* row is kept, in order, with the right frame's cell appended
merge_left(left, right) ==
    [n \in 1..Len(left) |-> Append(left[n], Lookup(right, left[n][1]))]

\* fillna(0) on one cell
fillna0(cell) == IF cell.kind = "nan" THEN Num(0) ELSE cell

\* round half to even of 1000 * f / t, for t > 0
Round3(f, t) ==
    LET q == (1000 * f) \div t
        r == (1000 * f) % t
    IN  IF 2 * r < t THEN q
        ELSE IF 2 * r > t THEN q + 1
        ELSE IF q % 2 = 0 THEN q ELSE q + 1

\* (female_count / total_enrolment).round(3), in thousandths; pandas division
\* by zero gives NaN for 0/0 and inf for a positive numerator
ratio(female_count, total_enrolment) ==
    IF total_enrolment = 0
    THEN (IF female_count = 0 THEN NaN ELSE Inf)
    ELSE Num(Round3(female_count, total_enrolment))

\* lines 114-139: merge, fillna, ratio, rename, column selection
MetricMerger(enrol, bio, demo) ==
    LET base   == [n \in 1..Len(enrol) |-> <<enrol[n].key, Num(enrol[n].sum)>>]
        merged == merge_left(merge_left(base, bio), demo)
    IN  [n \in 1..Len(merged) |->
           LET total  == merged[n][2].val
               female == fillna0(merged[n][3]).val
               mobile == fillna0(merged[n][4])
           IN  [State |-> merged[n][1][1],
                District |-> merged[n][1][2],
                mobile_update_volume |-> mobile,
                female_enrolment_pct |-> ratio(female, total),
                total_enrolment |-> Num(total)]]


-----------------------------------------------------------------------------
(* The snapshot artifact processed_metrics.json *)

\* no such file
Absent == [exists |-> FALSE, complete |-> FALSE, schema |-> "none", recs |-> <<>>]

\* a file that holds the first records of a document and is not closed off
Partial(schema, recs) ==
    [exists |-> TRUE, complete |-> FALSE, schema |-> schema, recs |-> recs]

\* a file that holds a whole JSON document
Whole(schema, recs) ==
    [exists |-> TRUE, complete |-> TRUE, schema |-> schema, recs |-> recs]

\* to_json writes NaN and infinities as null
json_number(cell) == IF cell.kind \in {"nan", "inf"} THEN Null ELSE cell

\* DataFrame.to_json(orient="records"): one object per row
to_json(df) ==
    [n \in 1..Len(df) |->
       [df[n] EXCEPT !.female_enrolment_pct = json_number(@)]]

-----------------------------------------------------------------------------
(* ingest_data.py main *)

\* how main ends for the three frames as loaded
main_outcome(enrol, bio, demo) ==
    IF normalize_raises(enrol) \/ normalize_raises(bio) \/ normalize_raises(demo)
    THEN "KeyError"
    ELSE IF IsEmpty(enrol) \/ IsEmpty(bio) \/ IsEmpty(demo)
    THEN "stopped"
    ELSE "saved"

\* final_df for three frames that passed the safety checks
main_final_df(enrol, bio, demo) ==
    MetricMerger(enrol_agg(normalize_location_names(enrol)),
                 bio_agg(normalize_location_names(bio)),
                 demo_agg(normalize_location_names(demo)))

\* a plausible slip: the output file is opened for writing before the checks
snapshot_opened_first(how, prior, df) ==
    IF how = "saved" THEN Whole("current", to_json(df)) ELSE Partial("current", <<>>)

\* the snapshot file once main has ended: to_json is reached only when no
\* exception was raised and no safety check returned
snapshot_after(how, prior, df) ==
    IF how = "saved" THEN Whole("current", to_json(df)) ELSE prior

-----------------------------------------------------------------------------
(* Raw inputs *)

S1 == <<" ", "a", " ", "&", " ", "b">>
S2 == <<"A", " ", "A", "N", "D", " ", "B">>
S3 == <<"t", "x">>
D1 == <<"d">>
D2 == <<"D", " ">>

\* raw (state, district) names of the enrolment files
EnrolLocs == {<<S1, D1>>, <<S2, D2>>, <<S3, D1>>}
\* raw (state, district) names of the biometric and demographic files
OtherLocs == {<<S2, D1>>, <<S3, D2>>}

EnrolRows ==
    {[state |-> l[1], district |-> l[2],
      age_0_5 |-> a[1], age_5_17 |-> a[2], age_18_greater |-> a[3]] :
        l \in EnrolLocs, a \in {<<0, 0, 0>>, <<1, 0, 1>>}}

BioRows ==
    {[state |-> l[1], district |-> l[2], bio_age_5_17 |-> a[1], bio_age_17_ |-> a[2]] :
        l \in OtherLocs, a \in {<<1, 0>>, <<2, 1>>}}

DemoRows ==
    {[state |-> l[1], district |-> l[2], demo_age_5_17 |-> a[1], demo_age_17_ |-> a[2]] :
        l \in OtherLocs, a \in {<<0, 0>>, <<1, 1>>}}

RECURSIVE OneRowFiles(_, _)
\* the folders of exactly n files, each file holding one row
OneRowFiles(rows, n) ==
    IF n = 0 THEN {<<>>}
    ELSE {<<<<r>>>> \o f : r \in rows, f \in OneRowFiles(rows, n - 1)}

\* what glob can find in a folder: nothing, one file with a header line only,
\* or up to n one-row files
Folders(rows, n) ==
    {<<<<>>>>} \cup UNION {OneRowFiles(rows, k) : k \in 0..n}

RowCount(files) == Len(concat(files))

\* snapshots written by the earlier pipeline, whose columns the API reads
LegacyRecs(v) ==
    <<[State |-> <<"T", "x">>, District |-> <<"D">>,
       Mobile_Number_Updates |-> v, Gender_Female |-> 450],
      [State |-> <<"T", "x">>, District |-> <<"E">>,
       Mobile_Number_Updates |-> 10 * v, Gender_Female |-> 300]>>

PriorSnapshots == {Absent} \cup {Whole("legacy", LegacyRecs(v)) : v \in 0..MaxLegacyVolume}

-----------------------------------------------------------------------------
(* app.py: load_data, analyze_logic, get_audit_report *)

\* what load_data returns as None
NoFrame == [schema |-> "None", rows |-> <<>>]

\* load_data: None when the file is missing or json.load raises, else the
\* records with State and District stripped and title-cased
load_data(file) ==
    IF ~file.exists \/ ~file.complete THEN NoFrame
    ELSE [schema |-> file.schema,
          rows |-> [n \in 1..Len(file.recs) |->
                      [file.recs[n] EXCEPT !.State = title(strip(@)),
                                           !.District = title(strip(@))]]]

\* the cleaning get_audit_report applies to the State column (line 116)
clean_state(s) == title(strip(replace_amp(s)))
\* the cleaning get_audit_report applies to the District column (line 117)
clean_district(s) == title(strip(s))
\* what get_audit_report does to the state and district arguments
clean_argument(s) == title(strip(s))

\* int(volume * factor) for factor = pct / 100; the float product truncates to
\* this for every volume below 100 and each of the factors the code uses
int_times(volume, pct) == (volume * pct) \div 100

\* round half to even of num / den
RoundDiv(num, den) ==
    LET q == num \div den
        r == num % den
    IN  IF 2 * r < den THEN q
        ELSE IF 2 * r > den THEN q + 1
        ELSE IF q % 2 = 0 THEN q ELSE q + 1

\* analyze_logic; the ratio is milli_sum / count thousandths
analyze_logic(volume, milli_sum, count, forecast_values) ==
    LET sec_status == IF volume > 1000 THEN "CRITICAL" ELSE "SAFE"
        inc_status == IF milli_sum < 400 * count THEN "WARNING" ELSE "SAFE"
    IN  [security |->
           [status |-> sec_status,
            message |-> IF sec_status = "CRITICAL"
                        THEN <<"High Anomaly", volume>> ELSE <<"Normal activity.">>,
            mobile_update_volume |-> volume],
         inclusivity |->
           [status |-> inc_status,
            message |-> IF inc_status = "WARNING"
                        THEN <<"Low Female Enrolment", milli_sum \div (10 * count)>>
                        ELSE <<"Gender Ratio Healthy.">>,
            \* round(ratio, 2), in hundredths
            female_enrolment_pct |-> RoundDiv(milli_sum, 10 * count)],
         efficiency |->
           [status |-> "SAFE", biometric_traffic_trend |-> forecast_values]]

Error(code, message) == [status |-> code, message |-> message]

\* an unhandled exception in a Flask view: 500 Internal Server Error
Unhandled(exception) == [status |-> 500, message |-> exception]

IsWholeRegion(target_district) ==
    \/ target_district = None
    \/ target_district = <<>>
    \/ lower(target_district) \in {<<"a", "l", "l">>, <<"n", "o", "n", "e">>, <<>>}

RECURSIVE SumColumn(_, _)
\* Series.sum() of one column of a frame
SumColumn(rows, column) ==
    IF rows = <<>> THEN 0 ELSE Head(rows)[column] + SumColumn(Tail(rows), column)

\* get_audit_report; fm is the module-level forecast_model, which the view
\* never reads
get_audit_report(target_state, target_district, file, fm) ==
    IF target_state = None \/ target_state = <<>>
    THEN Error(400, "State is required")
    ELSE LET df == load_data(file) IN
    IF df = NoFrame THEN Error(503, "Data Pipeline Not Ready")
    ELSE IF df.rows = <<>> THEN Unhandled("KeyError")
    ELSE LET cleaned  == [n \in 1..Len(df.rows) |->
                            [df.rows[n] EXCEPT !.State = clean_state(@),
                                               !.District = clean_district(@)]]
             InState(r) == r.State = clean_argument(target_state)
             state_df == SelectSeq(cleaned, InState)
         IN
    IF state_df = <<>> THEN Error(404, "State not found")
    ELSE IF IsWholeRegion(target_district)
    THEN IF df.schema # "legacy" THEN Unhandled("KeyError")
         ELSE LET volume == SumColumn(state_df, "Mobile_Number_Updates")
                  forecast_values == <<int_times(volume, 105), int_times(volume, 110),
                                       int_times(volume, 115)>>
              IN  [status |-> 200,
                   location |-> <<"A", "l", "l", " ">> \o target_state,
                   cards |-> analyze_logic(volume, SumColumn(state_df, "Gender_Female"),
                                           Len(state_df), forecast_values)]
    ELSE LET InDistrict(r) == r.District = clean_argument(target_district)
             match_df == SelectSeq(state_df, InDistrict)
         IN
         IF match_df = <<>> THEN Error(404, "District not found")
         ELSE IF df.schema # "legacy" THEN Unhandled("KeyError")
         ELSE LET record == match_df[1]
                  volume == record.Mobile_Number_Updates
                  forecast_values == <<int_times(volume, 102), int_times(volume, 105),
                                       int_times(volume, 108)>>
              IN  [status |-> 200,
                   location |-> record.District,
                   cards |-> analyze_logic(volume, record.Gender_Female, 1,
                                           forecast_values)]

\* the forecast artifact load_forecast.pkl: nothing, or bundles by state
\* forecast_model = None: load_forecast.pkl could not be loaded
NoModel == [loaded |-> FALSE, bundles |-> <<>>]

ForecastArtifacts ==
    {NoModel,
     [loaded |-> TRUE,
      bundles |-> <<[state |-> <<"T", "x">>, values |-> <<40, 41, 42>>,
                     accuracy |-> 941, trend |-> "INCREASING"]>>]}

Canonical1 == <<"A", " ", "A", "n", "d", " ", "B">>
Canonical3 == <<"T", "x">>

\* the state and district arguments of the requests served
QueryStates == {None, S1, Canonical1, Canonical3}
QueryDistricts == {None, <<"A", "L", "L">>, <<"d">>}

-----------------------------------------------------------------------------
(* Actions *)

NormIdle == /\ loc_in = <<>> /\ loc_out = <<>> /\ loc_again = <<>> /\ loc_stage = 0

BatchIdle ==
    /\ pc = "start" /\ outcome = "none"
    /\ df_enrol = EmptyFrame /\ df_bio = EmptyFrame /\ df_demo = EmptyFrame
    /\ final_df = <<>> /\ pending = <<>>

NoRequest == [served |-> FALSE, state |-> None, district |-> None]
NoResponse == [status |-> 0, message |-> "none"]
NotObserved == [called |-> FALSE, file |-> Absent, df |-> NoFrame]

ApiIdle == /\ request = NoRequest /\ response = NoResponse /\ observed = NotObserved

norm_vars == <<loc_in, loc_out, loc_again, loc_stage>>
batch_vars == <<pc, df_enrol, df_bio, df_demo, outcome, final_df, pending>>
api_vars == <<forecast_model, request, response, observed>>

\* main up to the point where it either ends or calls to_json: the frames it
\* loaded, how it goes on, and final_df
Loads(e, b, d) ==
    LET enrol == load_chunked_data(e)
        bio   == load_chunked_data(b)
        demo  == load_chunked_data(d)
        how   == main_outcome(enrol, bio, demo)
    IN  /\ df_enrol' = enrol
        /\ df_bio' = bio
        /\ df_demo' = demo
        /\ outcome' = how
        /\ final_df' = IF how = "saved" THEN main_final_df(enrol, bio, demo) ELSE <<>>

\* one whole, undisturbed run of main over folders of at most n rows together
MainOver(n) ==
    /\ pc = "start"
    /\ \E e \in Folders(EnrolRows, n) :
       \E b \in Folders(BioRows, n - RowCount(e)) :
       \E d \in Folders(DemoRows, n - RowCount(e) - RowCount(b)) :
          /\ Loads(e, b, d)
          /\ snapshot' = snapshot_after(outcome', snapshot, final_df')
    /\ pc' = "done"
    /\ UNCHANGED <<pending, norm_vars, api_vars>>

Main == MainOver(MaxRows)

\* a batch run that ends before the API serves its first request
MainBeforeServing == ~request.served /\ MainOver(ServedRows)

\* a run of main that passes the safety checks, as far as to_json opening the
\* output file for writing, which truncates it
BeginSave ==
    /\ pc = "start"
    /\ \E e \in Folders(EnrolRows, MaxRows) :
       \E b \in Folders(BioRows, MaxRows - RowCount(e)) :
       \E d \in Folders(DemoRows, MaxRows - RowCount(e) - RowCount(b)) :
          /\ Loads(e, b, d)
          /\ outcome' = "saved"
          /\ pending' = to_json(final_df')
    /\ snapshot' = Partial("current", <<>>)
    /\ pc' = "writing"
    /\ UNCHANGED <<norm_vars, api_vars>>

\* the next part of the document reaches the file
WriteRecord ==
    /\ pc = "writing" /\ pending # <<>>
    /\ snapshot' = Partial("current", Append(snapshot.recs, Head(pending)))
    /\ pending' = Tail(pending)
    /\ UNCHANGED <<pc, df_enrol, df_bio, df_demo, outcome, final_df, norm_vars, api_vars>>

\* the last of the document is written and the file closed
FinishSave ==
    /\ pc = "writing" /\ pending = <<>>
    /\ snapshot' = Whole("current", snapshot.recs)
    /\ pc' = "done"
    /\ UNCHANGED <<df_enrol, df_bio, df_demo, outcome, final_df, pending, norm_vars, api_vars>>

\* the batch process is ended while it writes
Killed ==
    /\ pc = "writing"
    /\ pc' = "done"
    /\ outcome' = "killed"
    /\ UNCHANGED <<df_enrol, df_bio, df_demo, final_df, pending, snapshot, norm_vars, api_vars>>

\* a request's load_data call: the file as it is read, and what is returned
LoadData ==
    /\ observed' = [called |-> TRUE, file |-> snapshot, df |-> load_data(snapshot)]
    /\ UNCHANGED <<snapshot, forecast_model, request, response, norm_vars, batch_vars>>

\* GET /api/audit
AuditQuery ==
    /\ \E s \in QueryStates, d \in QueryDistricts :
          /\ request' = [served |-> TRUE, state |-> s, district |-> d]
          /\ response' = get_audit_report(s, d, snapshot, forecast_model)
    /\ UNCHANGED <<snapshot, forecast_model, observed, norm_vars, batch_vars>>

\* the normalizer applied to a raw text
NormalizeOnce ==
    /\ loc_stage = 0
    /\ loc_out' = normalize(loc_in)
    /\ loc_stage' = 1
    /\ UNCHANGED <<loc_in, loc_again, snapshot, batch_vars, api_vars>>

\* the normalizer applied to its own output
NormalizeAgain ==
    /\ loc_stage = 1
    /\ loc_again' = normalize(loc_out)
    /\ loc_stage' = 2
    /\ UNCHANGED <<loc_in, loc_out, snapshot, batch_vars, api_vars>>

-----------------------------------------------------------------------------
(* Specifications *)

\* the batch pipeline run once over some prior snapshot
InitBatch ==
    /\ NormIdle /\ BatchIdle /\ ApiIdle
    /\ forecast_model = NoModel
    /\ snapshot \in PriorSnapshots

SpecBatch == InitBatch /\ [][Main]_vars

\* the API serving audit requests before and after a batch run
InitQuery ==
    /\ NormIdle /\ BatchIdle /\ ApiIdle
    /\ forecast_model \in ForecastArtifacts
    /\ snapshot \in PriorSnapshots

NextQuery == MainBeforeServing \/ AuditQuery

SpecQuery == InitQuery /\ [][NextQuery]_vars

\* a batch run's write of the snapshot interleaved with load_data calls
NextWrite == BeginSave \/ WriteRecord \/ FinishSave \/ Killed \/ LoadData

SpecWrite == InitBatch /\ [][NextWrite]_vars

\* the normalizer applied twice to every short text
InitNorm ==
    /\ loc_in \in Texts(NormChars, MaxLen)
    /\ loc_out = <<>> /\ loc_again = <<>> /\ loc_stage = 0
    /\ BatchIdle /\ ApiIdle
    /\ forecast_model = NoModel
    /\ snapshot = Absent

NextNorm == NormalizeOnce \/ NormalizeAgain

SpecNorm == InitNorm /\ [][NextNorm]_vars


-----------------------------------------------------------------------------
(* Properties *)

\* some source category yielded zero files in the run
FoundNoFiles == ~df_enrol.columns \/ ~df_bio.columns \/ ~df_demo.columns

\* the normalized (state, district) keys of a raw frame
NormKeys(df) ==
    {<<normalize(df.rows[i].state), normalize(df.rows[i].district)>> :
        i \in 1..Len(df.rows)}

\* the row indices of a raw frame whose normalized key is k
RowsOfKey(df, k) ==
    {i \in 1..Len(df.rows) :
        <<normalize(df.rows[i].state), normalize(df.rows[i].district)>> = k}

RecKey(rec) == <<rec.State, rec.District>>

\* C1: a batch run in which at least one of the three source categories yields
\* zero files aborts, and processed_metrics.json is after the run exactly what
\* it was before it.
C1_EmptySourceLeavesSnapshot ==
    [][(pc = "start" /\ pc' = "done" /\ FoundNoFiles')
          => (outcome' \in {"KeyError", "stopped"} /\ snapshot' = snapshot)]_vars

\* C1 witness: a run found no biometric files beside enrolment rows, ended
\* without saving, and an earlier snapshot is still in place.
C1_Witness ==
    /\ pc = "done" /\ ~df_bio.columns /\ ~IsEmpty(df_enrol)
    /\ outcome = "KeyError"
    /\ snapshot.complete /\ snapshot.schema = "legacy"

\* C5 (as claimed): a merged record whose total_enrolment is 0 carries a ratio
\* set by a fixed policy, never the not-a-number or infinity of a division by
\* zero.
C5_ZeroTotalHasPolicy ==
    outcome = "saved" =>
        \A n \in 1..Len(final_df) :
            final_df[n].total_enrolment = Num(0)
                => final_df[n].female_enrolment_pct.kind \notin {"nan", "inf"}

\* C6 (as claimed): every record with total_enrolment > 0 has
\* 0 <= female_enrolment_pct <= 1.
C6_RatioWithinUnitRange ==
    outcome = "saved" =>
        \A n \in 1..Len(final_df) :
            final_df[n].total_enrolment.val > 0
                => /\ final_df[n].female_enrolment_pct.kind = "num"
                   /\ final_df[n].female_enrolment_pct.val >= 0
                   /\ final_df[n].female_enrolment_pct.val <= 1000

C4_Idempotent == loc_stage = 2 => loc_again = loc_out

\* C4 (amended): normalize(normalize(x)) = normalize(x) for every text x of
\* ASCII characters.
C4_IdempotentOnAscii ==
    (loc_stage = 2 /\ \A i \in 1..Len(loc_in) : loc_in[i] \in AsciiChars)
        => loc_again = loc_out

\* C4 witness: a text with leading whitespace and an ampersand was normalized
\* twice.
C4_Witness ==
    /\ loc_stage = 2
    /\ Len(loc_in) = 3 /\ loc_in[1] = " " /\ loc_in[2] = "&" /\ loc_in[3] = "a"
    /\ loc_out = <<"A", "n", "d", "a">>

\* C2 (as claimed): for a snapshot written by the Metric Merger and a state
\* present in it, a whole-region audit query succeeds and reports the sum of
\* mobile_update_volume over the snapshot records of that state.
C2_WholeRegionVolumeIsSum ==
    (/\ request.served /\ request.state # None
     /\ IsWholeRegion(request.district)
     /\ snapshot.complete /\ snapshot.schema = "current"
     /\ \E n \in 1..Len(snapshot.recs) : snapshot.recs[n].State = request.state)
    => /\ response.status = 200
       /\ response.cards.security.mobile_update_volume =
            SumOver([n \in 1..Len(snapshot.recs) |->
                        snapshot.recs[n].mobile_update_volume.val],
                    {n \in 1..Len(snapshot.recs) :
                        snapshot.recs[n].State = request.state})

\* C3 (as claimed): an audit query whose state argument is a raw state text
\* that was ingested never returns state-not-found.
C3_IngestedStateIsFound ==
    (/\ request.served /\ outcome = "saved"
     /\ \E i \in 1..Len(df_enrol.rows) : df_enrol.rows[i].state = request.state)
    => ~(response.status = 404 /\ response.message = "State not found")

\* C8 (as claimed): a successful audit query for a state that has a bundle in
\* the forecast artifact reports that bundle's values in the efficiency pillar.
C8_BundleIsReported ==
    (/\ request.served /\ response.status = 200 /\ forecast_model.loaded)
    => \A n \in 1..Len(forecast_model.bundles) :
          forecast_model.bundles[n].state = clean_argument(request.state)
             => response.cards.efficiency.biometric_traffic_trend
                   = forecast_model.bundles[n].values

\* C9 (as claimed): with no trained bundle, an audit query for a state and
\* district the snapshot holds does not error and returns three integers
\* f1 < f2 < f3.
C9_FallbackStrictlyIncreasing ==
    (/\ request.served /\ ~forecast_model.loaded
     /\ response.status \notin {400, 404, 503})
    => /\ response.status = 200
       /\ LET f == response.cards.efficiency.biometric_traffic_trend
          IN  Len(f) = 3 /\ f[1] < f[2] /\ f[2] < f[3]

\* C10 (as claimed): a load_data call that finds the snapshot file reads a
\* complete snapshot, never an empty or partly written one.
C10_ReaderSeesWholeSnapshot ==
    (observed.called /\ observed.file.exists)
        => (observed.file.complete /\ observed.df # NoFrame)

=============================================================================
